---- MODULE Spec2Model ----
\* Model of package lvlog (src/lvlog/log.go): a leveled facade over the
\* standard logger.  The state is the package's variables together with the
\* output handle and flags of the standard logger the package configures.
EXTENDS Integers, Sequences, FiniteSets, TLC

VARIABLES
    level,        \* var level (current threshold)
    logFile,      \* var logFile (*os.File the package last bound)
    levelString,  \* var levelString (flag -log-level)
    filename,     \* var filename (flag -log-file)
    out,          \* output handle of the standard logger (golog.SetOutput)
    flags,        \* flags of the standard logger (golog.SetFlags)
    exited,       \* TRUE once os.Exit was called
    exitCode,     \* argument of os.Exit, 0 while running
    last,         \* the most recent call: operation, arguments, result
    events        \* observable effects of the most recent call, in order

vars == <<level, logFile, levelString, filename, out, flags, exited, exitCode, last, events>>

\* ---------------------------------------------------------------- bounds
\* InitLevelAndFile is called with levels in -MaxLevelArg .. MaxLevelArg.
MaxLevelArg == 4

\* ------------------------------------------------------------- constants
LevelDebug == 0
LevelInfo == 1
LevelWarning == 2
LevelError == 3

Severities == LevelDebug..LevelError

levelPrefix(l) ==
    CASE l = LevelDebug -> "[DEBUG] "
      [] l = LevelInfo -> "[INFO] "
      [] l = LevelWarning -> "[WARNING] "
      [] l = LevelError -> "[ERROR] "

\* Flags of the standard logger, as sets of flag bits.
LstdFlags == {"Ldate", "Ltime"}
Lshortfile == {"Lshortfile"}

\* ----------------------------------------------------------- environment
Stderr == [kind |-> "stderr", name |-> ""]
\* (*os.File)(nil): what os.OpenFile returns together with an error.
NilFile == [kind |-> "nil", name |-> ""]
FileHandle(name) == [kind |-> "file", name |-> name]

\* Files that exist and can be opened read-write; every other path fails.
ExistingFiles == {"a.log"}
Paths == {"", "a.log", "missing.log"}
LevelStrings == {"DEBUG", "INFO", "WARNING", "ERROR", "debug", "BOGUS"}
LevelArgs == (0 - MaxLevelArg)..MaxLevelArg

NoError == "nil"
OpenError == "open: no such file or directory"
WrongLevel == "wrong level number"
Diagnostic == "log-level can only be DEBUG, INFO, WARNING, ERROR"

\* os.OpenFile(name, os.O_RDWR, 0666): no O_CREATE, the file must exist.
OpenFile(name) ==
    IF name \in ExistingFiles
    THEN [f |-> FileHandle(name), err |-> NoError]
    ELSE [f |-> NilFile, err |-> OpenError]

\* ---------------------------------------------------------- fmt and log
\* An operand of a variadic call: its default rendering and whether it is a
\* string (fmt.Sprint puts a space between two operands that are not strings).
Str(s) == [str |-> s, isString |-> TRUE]
Num(s) == [str |-> s, isString |-> FALSE]
\* The operand lists the write functions are called with.
Operands == {<<>>, <<Str("x")>>, <<Num("7"), Num("8")>>}

\* A format template is a sequence of tokens: literal text or the verb "%v".
Verb == "%v"
Formats == {<<"f">>, <<"n=", Verb>>}

RECURSIVE SprintFrom(_, _)
SprintFrom(v, i) ==
    IF i > Len(v) THEN ""
    ELSE (IF i > 1 /\ ~v[i - 1].isString /\ ~v[i].isString THEN " " ELSE "")
         \o v[i].str \o SprintFrom(v, i + 1)

\* fmt.Sprint(v...)
Sprint(v) == SprintFrom(v, 1)

TypeName(x) == IF x.isString THEN "string" ELSE "int"

RECURSIVE Extra(_, _, _)
Extra(v, i, first) ==
    IF i > Len(v) THEN ""
    ELSE (IF first THEN "" ELSE ", ")
         \o TypeName(v[i]) \o "=" \o v[i].str \o Extra(v, i + 1, FALSE)

RECURSIVE SprintfFrom(_, _, _, _)
SprintfFrom(format, v, i, a) ==
    IF i > Len(format)
    THEN (IF a <= Len(v) THEN "%!(EXTRA " \o Extra(v, a, TRUE) \o ")" ELSE "")
    ELSE IF format[i] = Verb
         THEN (IF a <= Len(v) THEN v[a].str ELSE "%!v(MISSING)")
              \o SprintfFrom(format, v, i + 1, a + 1)
         ELSE format[i] \o SprintfFrom(format, v, i + 1, a)

\* fmt.Sprintf(format, v...)
Sprintf(format, v) == SprintfFrom(format, v, 1, 1)

\* The header the standard logger writes before the text, from its flags.
formatHeader(fl, loc) ==
    (IF "Ldate" \in fl THEN <<"date">> ELSE <<>>)
    \o (IF "Ltime" \in fl THEN <<"time">> ELSE <<>>)
    \o (IF "Lshortfile" \in fl THEN <<loc>> ELSE <<>>)

\* One line handed by the standard logger to its output handle.
LogLine(text, loc) ==
    [ev |-> "log", dest |-> out, header |-> formatHeader(flags, loc), text |-> text]

\* golog.Printf(format, v...)
gologPrintf(format, v, loc) == <<LogLine(Sprintf(format, v), loc)>>

\* golog.Print(v...)
gologPrint(v, loc) == <<LogLine(Sprint(v), loc)>>

\* ------------------------------------------------------------- the package
\* Mutant: a write at the threshold itself is dropped.
GateStrict(l) == l > level
\* The level gate of outputf and output.
Gate(l) == l >= level

\* func outputf(l int, format string, v []interface{}): the lines it logs.
\* fmt.Sprint(levelPrefix[l], format) joins two strings: the prefix becomes
\* the first literal token of the format.
outputf(l, format, v) ==
    IF Gate(l)
    THEN gologPrintf(<<levelPrefix(l)>> \o format, v, "log.go:87")
    ELSE <<>>

\* func output(l int, v []interface{}): the lines it logs.
output(l, v) ==
    IF Gate(l)
    THEN gologPrint(<<Str(levelPrefix(l)), Str(Sprint(v))>>, "log.go:93")
    ELSE <<>>

ExitEvent(code) == [ev |-> "exit", code |-> code]
StderrEvent(text) == [ev |-> "stderr", text |-> text]

Call(op, l, p, format, v, ret, returned) ==
    [op |-> op, l |-> l, p |-> p, format |-> format, v |-> v,
     ret |-> ret, returned |-> returned]

NoCall == Call("none", 0, "", <<>>, <<>>, "none", TRUE)

\* func setFileName(name string) error: the new logFile, the standard
\* logger's output and flags, and the returned error.
\* Mutant: a failed open keeps the previous destination.
setFileNameKeepOnError(name) ==
    LET r == IF Len(name) > 0 THEN OpenFile(name)
             ELSE [f |-> logFile, err |-> NoError]
        f == IF r.err = NoError THEN r.f ELSE logFile
    IN [logFile |-> f, out |-> f, flags |-> LstdFlags \cup Lshortfile, err |-> r.err]
setFileName(name) ==
    LET r == IF Len(name) > 0 THEN OpenFile(name)
             ELSE [f |-> logFile, err |-> NoError]
    IN [logFile |-> r.f, out |-> r.f, flags |-> LstdFlags \cup Lshortfile, err |-> r.err]

\* Mutant: the package starts at the Debug threshold.
InitDebug ==
    /\ level = LevelDebug
    /\ logFile = Stderr
    /\ levelString = "INFO"
    /\ filename = ""
    /\ out = Stderr
    /\ flags = LstdFlags
    /\ exited = FALSE
    /\ exitCode = 0
    /\ last = NoCall
    /\ events = <<>>
\* The package-level variable initialisers and the standard logger's defaults.
Init ==
    /\ level = LevelInfo
    /\ logFile = Stderr
    /\ levelString = "INFO"
    /\ filename = ""
    /\ out = Stderr
    /\ flags = LstdFlags
    /\ exited = FALSE
    /\ exitCode = 0
    /\ last = NoCall
    /\ events = <<>>

\* flag.Parse() by the host program: the flags registered in init() are set
\* from the command line.
FlagParse ==
    /\ ~exited
    /\ \E ls \in LevelStrings, fn \in Paths :
        /\ levelString' = ls
        /\ filename' = fn
    /\ last' = Call("flag.Parse", 0, "", <<>>, <<>>, "none", TRUE)
    /\ events' = <<>>
    /\ UNCHANGED <<level, logFile, out, flags, exited, exitCode>>

\* Mutant: the level name is matched without regard to case.
ParseLevelAnyCase(s) ==
    CASE s \in {"DEBUG", "debug"} -> LevelDebug
      [] s = "INFO" -> LevelInfo
      [] s = "WARNING" -> LevelWarning
      [] s = "ERROR" -> LevelError
      [] OTHER -> -1
\* The level a level name selects in InitFromArgs; -1 for the default branch.
ParseLevel(s) ==
    CASE s = "DEBUG" -> LevelDebug
      [] s = "INFO" -> LevelInfo
      [] s = "WARNING" -> LevelWarning
      [] s = "ERROR" -> LevelError
      [] OTHER -> -1

\* func InitFromArgs()
InitFromArgs ==
    /\ ~exited
    /\ LET l == ParseLevel(levelString)
       IN IF l = -1
          THEN /\ events' = <<StderrEvent(Diagnostic), ExitEvent(1)>>
               /\ exited' = TRUE
               /\ exitCode' = 1
               /\ last' = Call("InitFromArgs", 0, "", <<>>, <<>>, "none", FALSE)
               /\ UNCHANGED <<level, logFile, out, flags>>
          ELSE LET r == setFileName(filename)
               IN /\ level' = l
                  /\ logFile' = r.logFile
                  /\ out' = r.out
                  /\ flags' = r.flags
                  /\ events' = <<>>
                  /\ last' = Call("InitFromArgs", 0, "", <<>>, <<>>, "none", TRUE)
                  /\ UNCHANGED <<exited, exitCode>>
    /\ UNCHANGED <<levelString, filename>>

\* Mutant: the lower bound of the range check is missing.
ValidLevelNoLower(l) == l <= LevelError
\* The range check of InitLevelAndFile.
ValidLevel(l) == l <= LevelError /\ l >= LevelDebug

\* Mutant: the destination is bound before the level is checked.
InitLevelAndFileBindFirst(l, p) ==
    /\ ~exited
    /\ LET r == setFileName(p)
       IN /\ logFile' = r.logFile
          /\ out' = r.out
          /\ flags' = r.flags
          /\ IF ValidLevel(l)
             THEN /\ level' = l
                  /\ last' = Call("InitLevelAndFile", l, p, <<>>, <<>>, r.err, TRUE)
             ELSE /\ last' = Call("InitLevelAndFile", l, p, <<>>, <<>>, WrongLevel, TRUE)
                  /\ UNCHANGED level
    /\ events' = <<>>
    /\ UNCHANGED <<levelString, filename, exited, exitCode>>
\* func InitLevelAndFile(l int, p string) error
InitLevelAndFile(l, p) ==
    /\ ~exited
    /\ IF ValidLevel(l)
       THEN LET r == setFileName(p)
            IN /\ level' = l
               /\ logFile' = r.logFile
               /\ out' = r.out
               /\ flags' = r.flags
               /\ last' = Call("InitLevelAndFile", l, p, <<>>, <<>>, r.err, TRUE)
       ELSE /\ last' = Call("InitLevelAndFile", l, p, <<>>, <<>>, WrongLevel, TRUE)
            /\ UNCHANGED <<level, logFile, out, flags>>
    /\ events' = <<>>
    /\ UNCHANGED <<levelString, filename, exited, exitCode>>

\* A write that returns to its caller: the lines it logged are its effects.
Write(op, l, format, v, lines) ==
    /\ ~exited
    /\ events' = lines
    /\ last' = Call(op, l, "", format, v, "none", TRUE)
    /\ UNCHANGED <<level, logFile, levelString, filename, out, flags, exited, exitCode>>

\* Mutant: os.Exit(1) runs before the message is logged.
FatalWriteExitFirst(op, format, v, lines) ==
    /\ ~exited
    /\ events' = <<ExitEvent(1)>>
    /\ exited' = TRUE
    /\ exitCode' = 1
    /\ last' = Call(op, LevelError, "", format, v, "none", FALSE)
    /\ UNCHANGED <<level, logFile, levelString, filename, out, flags>>
\* A fatal write: the lines it logged, then os.Exit(1).
FatalWrite(op, format, v, lines) ==
    /\ ~exited
    /\ events' = lines \o <<ExitEvent(1)>>
    /\ exited' = TRUE
    /\ exitCode' = 1
    /\ last' = Call(op, LevelError, "", format, v, "none", FALSE)
    /\ UNCHANGED <<level, logFile, levelString, filename, out, flags>>

Fatalf == \E f \in Formats, v \in Operands :
    FatalWrite("Fatalf", f, v, outputf(LevelError, f, v))
Fatal == \E v \in Operands :
    FatalWrite("Fatal", <<>>, v, output(LevelError, v))
Errorf == \E f \in Formats, v \in Operands :
    Write("Errorf", LevelError, f, v, outputf(LevelError, f, v))
Error == \E v \in Operands :
    Write("Error", LevelError, <<>>, v, output(LevelError, v))
Warningf == \E f \in Formats, v \in Operands :
    Write("Warningf", LevelWarning, f, v, outputf(LevelWarning, f, v))
Warning == \E v \in Operands :
    Write("Warning", LevelWarning, <<>>, v, output(LevelWarning, v))
Infof == \E f \in Formats, v \in Operands :
    Write("Infof", LevelInfo, f, v, outputf(LevelInfo, f, v))
Info == \E v \in Operands :
    Write("Info", LevelInfo, <<>>, v, output(LevelInfo, v))
Debugf == \E f \in Formats, v \in Operands :
    Write("Debugf", LevelDebug, f, v, outputf(LevelDebug, f, v))
Debug == \E v \in Operands :
    Write("Debug", LevelDebug, <<>>, v, output(LevelDebug, v))

Next ==
    \/ FlagParse
    \/ InitFromArgs
    \/ \E l \in LevelArgs, p \in Paths : InitLevelAndFile(l, p)
    \/ Fatalf
    \/ Fatal
    \/ Errorf
    \/ Error
    \/ Warningf
    \/ Warning
    \/ Infof
    \/ Info
    \/ Debugf
    \/ Debug

Spec == Init /\ [][Next]_vars

\* The program when no init operation is ever called.
NextNoInit ==
    \/ FlagParse
    \/ Fatalf
    \/ Fatal
    \/ Errorf
    \/ Error
    \/ Warningf
    \/ Warning
    \/ Infof
    \/ Info
    \/ Debugf
    \/ Debug

SpecNoInit == Init /\ [][NextNoInit]_vars

\* ------------------------------------------------------------ properties
\* The severity each exported write function stands for, under the ordering
\* Debug < Info < Warning < Error.
OpSeverity(op) ==
    CASE op \in {"Debug", "Debugf"} -> 0
      [] op \in {"Info", "Infof"} -> 1
      [] op \in {"Warning", "Warningf"} -> 2
      [] op \in {"Error", "Errorf", "Fatal", "Fatalf"} -> 3

PrefixTable(sev) ==
    CASE sev = 0 -> "[DEBUG] "
      [] sev = 1 -> "[INFO] "
      [] sev = 2 -> "[WARNING] "
      [] sev = 3 -> "[ERROR] "

WriteOps == {"Debug", "Debugf", "Info", "Infof", "Warning", "Warningf", "Error", "Errorf"}
FormattedOps == {"Debugf", "Infof", "Warningf", "Errorf", "Fatalf"}
FatalOps == {"Fatal", "Fatalf"}
LevelNames == {"DEBUG", "INFO", "WARNING", "ERROR"}

NameSeverity(s) ==
    CASE s = "DEBUG" -> 0
      [] s = "INFO" -> 1
      [] s = "WARNING" -> 2
      [] s = "ERROR" -> 3

\* The message of the most recent write, as its caller wrote it.
LastMessage ==
    IF last.op \in FormattedOps THEN Sprintf(last.format, last.v) ELSE Sprint(last.v)

LogEvents == SelectSeq(events, LAMBDA e : e.ev = "log")

\* C1: a write of severity S hands exactly one line to the logger when S is at
\* or above the current threshold, and nothing when S is below it, whatever
\* init calls set the threshold.
C1_WriteGatedByThreshold ==
    last.op \in WriteOps =>
        IF OpSeverity(last.op) >= level
        THEN /\ Len(events) = 1
             /\ events[1].ev = "log"
             /\ events[1].dest = out
        ELSE events = <<>>

C1_Witness ==
    /\ last.op = "Warning"
    /\ level = 2
    /\ levelString = "WARNING"
    /\ Len(events) = 1
    /\ events[1].ev = "log"

\* C2: the threshold is always one of the four severities 0..3.
C2_ThresholdInRange == level \in {0, 1, 2, 3}

C2_Witness ==
    /\ last.op = "InitLevelAndFile"
    /\ last.l < 0
    /\ last.p = "missing.log"
    /\ level = 3

\* C3: InitLevelAndFile with a level outside 0..3 returns "wrong level number"
\* and changes neither the threshold nor the destination nor the flags, and
\* opens no file, for every path.
C3_InvalidLevelRejected ==
    [][(last'.op = "InitLevelAndFile" /\ last'.l \notin {0, 1, 2, 3}) =>
          /\ last'.ret = "wrong level number"
          /\ last'.returned
          /\ level' = level
          /\ logFile' = logFile
          /\ out' = out
          /\ flags' = flags
          /\ events' = <<>>
          /\ ~exited']_vars

C3_Witness ==
    /\ last.op = "InitLevelAndFile"
    /\ last.l = 4
    /\ last.p = "a.log"
    /\ last.ret = "wrong level number"
    /\ level = 3
    /\ logFile = NilFile

\* C4: InitLevelAndFile with a valid level and a non-empty path whose open
\* fails returns an error, yet the threshold is the requested level and the
\* destination is the handle the failed open returned.
C4_FailedOpenNotRolledBack ==
    (/\ last.op = "InitLevelAndFile"
     /\ last.l \in {0, 1, 2, 3}
     /\ last.p # ""
     /\ last.p \notin ExistingFiles) =>
        /\ last.ret # NoError
        /\ last.ret # "wrong level number"
        /\ level = last.l
        /\ logFile = NilFile
        /\ out = NilFile

C4_Witness ==
    /\ last.op = "InitLevelAndFile"
    /\ last.l = 2
    /\ last.p = "missing.log"
    /\ last.ret = OpenError
    /\ level = 2
    /\ logFile = NilFile

\* C5: Fatal and Fatalf, at every threshold, first log the message as an
\* Error line and then exit with code 1; the call does not return and no
\* operation runs afterwards.
C5_FatalLogsThenExits ==
    last.op \in FatalOps =>
        /\ Len(events) = 2
        /\ events[1].ev = "log"
        /\ events[1].text = "[ERROR] " \o LastMessage
        /\ events[2] = [ev |-> "exit", code |-> 1]
        /\ exited
        /\ exitCode = 1
        /\ ~last.returned
        /\ ~ENABLED Next

C5_Witness ==
    /\ last.op = "Fatalf"
    /\ level = 3
    /\ logFile = FileHandle("a.log")
    /\ exited
    /\ Len(events) = 2

\* C6: after an init call that is given an empty file path and goes through,
\* the destination is standard error and the flags are applied, whatever init
\* calls came before.
C6_EmptyPathMeansStderr ==
    (\/ (last.op = "InitLevelAndFile" /\ last.p = "" /\ last.ret = NoError)
     \/ (last.op = "InitFromArgs" /\ filename = "" /\ last.returned)) =>
        /\ logFile = Stderr
        /\ out = Stderr
        /\ flags = {"Ldate", "Ltime", "Lshortfile"}

\* C7: an init call given a non-empty path that cannot be opened lets its
\* caller observe the failure, as a returned error or as a diagnostic, on both
\* init paths.
C7_OpenFailureSurfaced ==
    (\/ (last.op = "InitLevelAndFile" /\ last.l \in {0, 1, 2, 3}
            /\ last.p # "" /\ last.p \notin ExistingFiles)
     \/ (last.op = "InitFromArgs" /\ filename # "" /\ filename \notin ExistingFiles)) =>
        \/ last.ret \notin {NoError, "none"}
        \/ \E i \in 1..Len(events) : events[i].ev = "stderr"

\* C8: InitFromArgs with a level string other than the four names prints a
\* diagnostic to standard error and exits with code 1, leaving threshold,
\* destination and flags as they were and opening no file; with one of the
\* four names it sets the threshold to that severity and returns.
C8_InitFromArgsLevelName ==
    [][(last'.op = "InitFromArgs") =>
          IF levelString \in LevelNames
          THEN /\ level' = NameSeverity(levelString)
               /\ ~exited'
               /\ last'.returned
               /\ events' = <<>>
          ELSE /\ events' = <<[ev |-> "stderr", text |-> Diagnostic],
                             [ev |-> "exit", code |-> 1]>>
               /\ exited'
               /\ exitCode' = 1
               /\ ~last'.returned
               /\ level' = level
               /\ logFile' = logFile
               /\ out' = out
               /\ flags' = flags]_vars

C8_Witness ==
    /\ last.op = "InitFromArgs"
    /\ levelString = "debug"
    /\ filename = "a.log"
    /\ exited
    /\ exitCode = 1
    /\ level = 3
    /\ logFile = Stderr

\* C9: while no init operation has been called the threshold is Info and the
\* destination is standard error: Debug and Debugf log nothing, and Info,
\* Warning and Error writes of both forms each log one line to standard error.
C9_DefaultsWithoutInit ==
    /\ level = 1
    /\ logFile = Stderr
    /\ out = Stderr
    /\ (last.op \in {"Debug", "Debugf"} => events = <<>>)
    /\ (last.op \in WriteOps \ {"Debug", "Debugf"} =>
            /\ Len(events) = 1
            /\ events[1].ev = "log"
            /\ events[1].dest = Stderr)

C9_Witness ==
    /\ last.op = "Infof"
    /\ levelString = "ERROR"
    /\ Len(events) = 1
    /\ events[1].dest = Stderr

\* C10: every line a write of severity S logs, in every reachable state and
\* also before any init call, has a header of date, time and short file:line,
\* then the prefix of S from the prefix table, then the message.
C10_LineFormat ==
    (last.op \in WriteOps \cup FatalOps) =>
        \A i \in 1..Len(LogEvents) :
            /\ Len(LogEvents[i].header) = 3
            /\ LogEvents[i].header[1] = "date"
            /\ LogEvents[i].header[2] = "time"
            /\ LogEvents[i].header[3] \in {"log.go:87", "log.go:93"}
            /\ LogEvents[i].text = PrefixTable(OpSeverity(last.op)) \o LastMessage

====
